---- MODULE Spec2Model ----
(***************************************************************************)
(* NOx dashboard scripts (ap_NOX.py, Nox11_creative.py, Nox1_creative.py,  *)
(* Nox2_creative.py).  Each script is a Streamlit page: the framework runs *)
(* the script top to bottom at session start and again after every upload  *)
(* or widget interaction.  One run is the sequence                         *)
(*   upload check -> read_csv/to_datetime -> feature assembly ->           *)
(*   joblib.load -> predict -> alert levels -> date filter ->              *)
(*   summary table -> CSV export                                           *)
(* and an exception or st.stop() ends the run.                             *)
(***************************************************************************)
EXTENDS Integers, Sequences, FiniteSets, TLC

VARIABLES
  variant,        \* which of the four scripts the process serves
  artifacts,      \* the two estimators pickled in the .pkl files
  uploaded_file,  \* value of st.file_uploader for the current run
  target,         \* session value of the BAF/OPSIS selector
  date_range,     \* session value of st.date_input ("default" until changed)
  runs,           \* script runs triggered after the session's first run
  loads,          \* joblib.load calls per artifact since process start
  pc,             \* position of the current run
  err,            \* exception that ended the current run ("" if none)
  df,             \* DataFrame df of the current run
  X,              \* feature matrix X of the current run
  model_baf,      \* object bound to model_baf (id 0 = unbound)
  model_opsis,    \* object bound to model_opsis (id 0 = unbound)
  df_filtered,    \* DataFrame df_filtered / df_f of the current run
  csv,            \* bytes handed to st.download_button
  run_loads,      \* joblib.load calls per artifact in the current run
  run_predicts,   \* predict calls in the current run
  saved,          \* results file the user saved from the download button
  val, seuil_att, seuil_dang, level,  \* one call of the alert classifier
  column          \* the prediction column that call serves ("" if none)

vars == <<variant, artifacts, uploaded_file, target, date_range, runs, loads, pc, err,
          df, X, model_baf, model_opsis, df_filtered, csv, run_loads,
          run_predicts, saved, val, seuil_att, seuil_dang, level, column>>

(***************************************************************************)
(* Bounds                                                                  *)
(***************************************************************************)
MaxRows == 2
MaxRuns == 2

Variants == {"ap_NOX", "Nox11_creative", "Nox1_creative", "Nox2_creative"}

(***************************************************************************)
(* Values.  A number is a fraction n/d (column means need not be whole);   *)
(* NaN is the missing marker.  A string cell of an object column keeps its *)
(* text: either the text of a number ("strnum") or other text ("str", with *)
(* its code points).                                                       *)
(***************************************************************************)
Num(n) == [k |-> "num", n |-> n, d |-> 1, s |-> <<>>]
Frac(n, d) == [k |-> "num", n |-> n, d |-> d, s |-> <<>>]
NaN == [k |-> "nan", n |-> 0, d |-> 1, s |-> <<>>]
StrNum(n) == [k |-> "strnum", n |-> n, d |-> 1, s |-> <<>>]
Str(s) == [k |-> "str", n |-> 0, d |-> 1, s |-> s]

\* CSV cell texts: the text of a number, one of the na_values markers
\* ("", "NA", "null"), or any other text.
NumText(n) == [k |-> "numtext", n |-> n, d |-> 1, s |-> <<>>]
NaText == [k |-> "na", n |-> 0, d |-> 1, s |-> <<>>]
Text(s) == [k |-> "text", n |-> 0, d |-> 1, s |-> s]

abc == <<97, 98, 99>>

\* Timestamps and the two textual forms that occur.
Stamp(d, h, mi) == [y |-> 2024, m |-> 1, d |-> d, h |-> h, mi |-> mi]
Key(ts) == (((ts.y * 12 + ts.m) * 31 + ts.d) * 24 + ts.h) * 60 + ts.mi

\* "DD.MM.YYYY HH:MM"
DMY(ts) == [sep |-> ".", a |-> ts.d, b |-> ts.m, c |-> ts.y, time |-> TRUE,
            h |-> ts.h, mi |-> ts.mi, secs |-> FALSE]

NoFrame == [bound |-> FALSE, n |-> 0, data |-> [c \in {} |-> <<>>]]
Frame(n, data) == [bound |-> TRUE, n |-> n, data |-> data]
Cols(f) == DOMAIN f.data

(***************************************************************************)
(* Uploaded files.  Columns: date, two sensor columns, and the reference   *)
(* columns Nox_baf and 'Nox opsis'.                                        *)
(***************************************************************************)
\* columns excluded from the features (df.drop(columns=[...]))
Dropped == {"date", "Nox_baf", "Nox opsis"}

AllColumns == {"date", "sensorA", "sensorB", "Nox_baf", "Nox opsis"}

Rows == 1..MaxRows

File(n, present, dates, a, b) ==
  Frame(n, [c \in present |->
              CASE c = "date" -> dates
                [] c = "sensorA" -> a
                [] c = "sensorB" -> b
                [] c = "Nox_baf" -> [i \in 1..n |-> NumText(410)]
                [] OTHER -> [i \in 1..n |-> NaText]])

\* default content: row i is stamped day i at 10:00, sensorA=100, sensorB=50
PlainDates(n) == [i \in 1..n |-> DMY(Stamp(i, 10, 0))]
PlainA(n) == [i \in 1..n |-> NumText(100)]
PlainB(n) == [i \in 1..n |-> NumText(50)]

\* files that differ in which of the required columns they carry
ColumnFiles ==
  {File(n, {"sensorA", "sensorB"} \cup req, PlainDates(n), PlainA(n), PlainB(n)) :
     n \in Rows, req \in SUBSET Dropped}

\* complete files that differ in the readings of sensorA
Readings == {NumText(100), NumText(300)}

ReadingFiles ==
  UNION {{File(n, AllColumns, PlainDates(n), a, PlainB(n)) : a \in [1..n -> Readings]} : n \in Rows}

\* complete files whose sensor cells may be missing or not numeric
CellsA == {NumText(100), NumText(300), NaText, Text(abc)}
CellsB == {NumText(50), NaText}

CellFiles ==
  UNION {{File(n, AllColumns, PlainDates(n), a, b) :
            a \in [1..n -> CellsA], b \in [1..n -> CellsB]} : n \in Rows}

(***************************************************************************)
(* The pickled estimators.  They are fitted elsewhere and opaque to the    *)
(* scripts; each is a fixed function of a feature row, here a regression   *)
(* wA * sensorA + wB * sensorB + c.                                        *)
(***************************************************************************)
Estimator(wA, wB, c) == [wA |-> wA, wB |-> wB, c |-> c]

BafEstimators ==
  {Estimator(0, 0, 399), Estimator(0, 0, 400), Estimator(0, 0, 500), Estimator(1, 2, 100)}

OpsisEstimators ==
  {Estimator(0, 0, 349), Estimator(0, 0, 350), Estimator(0, 0, 450), Estimator(1, 0, 150)}

Artifacts == [baf : BafEstimators, opsis : OpsisEstimators]

\* two stub estimators that always return the given values
Constant(b, o) == [baf |-> Estimator(0, 0, b), opsis |-> Estimator(0, 0, o)]

NoModel == [id |-> 0, est |-> Estimator(0, 0, 0)]

DefaultRange == [kind |-> "default", s |-> 0, e |-> 0]

\* state of a process whose current run starts with the given file
Start(file, n, pickles) ==
  /\ variant \in Variants
  /\ artifacts \in pickles
  /\ uploaded_file = file
  /\ target = "BAF"
  /\ date_range = DefaultRange
  /\ runs = n
  /\ loads = [a \in {"baf", "opsis"} |-> 0]
  /\ pc = "upload_check"
  /\ err = ""
  /\ df = NoFrame
  /\ X = NoFrame
  /\ model_baf = NoModel
  /\ model_opsis = NoModel
  /\ df_filtered = NoFrame
  /\ csv = NoFrame
  /\ run_loads = [a \in {"baf", "opsis"} |-> 0]
  /\ run_predicts = 0
  /\ saved = [csv |-> NoFrame, raw |-> NoFrame]
  /\ seuil_att = 0 /\ seuil_dang = 0 /\ level = "none" /\ column = ""

\* session start: the script runs with an empty uploader
Init == Start(NoFrame, 0, Artifacts) /\ val = Num(0)

(***************************************************************************)
(* Ingestion: pd.read_csv(file, na_values=["null","NA"]) followed by       *)
(* pd.to_datetime(df['date'], format="%d.%m.%Y %H:%M").                    *)
(***************************************************************************)
\* dtype inference of read_csv: a column with a cell that is neither a
\* number nor a missing marker is an object column of strings.
IsTextColumn(col) == \E i \in DOMAIN col : col[i].k = "text"

read_cell(c, object) ==
  CASE c.k = "na" -> NaN
    [] c.k = "numtext" -> IF object THEN StrNum(c.n) ELSE Frac(c.n, c.d)
    [] OTHER -> Str(c.s)

read_column(col) == [i \in DOMAIN col |-> read_cell(col[i], IsTextColumn(col))]

\* strptime with "%d.%m.%Y %H:%M" (exact match of the whole text)
matches_format(t) ==
  /\ t.sep = "." /\ t.time /\ ~t.secs
  /\ t.a \in 1..31 /\ t.b \in 1..12 /\ t.h \in 0..23 /\ t.mi \in 0..59

strptime(t) == [y |-> t.c, m |-> t.b, d |-> t.a, h |-> t.h, mi |-> t.mi]

\* variant: the timestamp column is converted only when it is present
Ingest_optional_date(file) ==
  IF ~file.bound THEN [err |-> "ValueError_read_csv", df |-> NoFrame]
  ELSE IF "date" \in Cols(file) /\ \E i \in 1..file.n : ~matches_format(file.data["date"][i])
       THEN [err |-> "ValueError_time_data", df |-> NoFrame]
  ELSE [err |-> "",
        df |-> Frame(file.n,
                 [c \in Cols(file) |->
                    IF c = "date"
                    THEN [i \in 1..file.n |-> strptime(file.data[c][i])]
                    ELSE read_column(file.data[c])])]

\* Result of the two ingestion statements on an uploaded file.
Ingest(file) ==
  IF ~file.bound THEN [err |-> "ValueError_read_csv", df |-> NoFrame]
  ELSE IF "date" \notin Cols(file) THEN [err |-> "KeyError_date", df |-> NoFrame]
  ELSE IF \E i \in 1..file.n : ~matches_format(file.data["date"][i])
       THEN [err |-> "ValueError_time_data", df |-> NoFrame]
  ELSE [err |-> "",
        df |-> Frame(file.n,
                 [c \in Cols(file) |->
                    IF c = "date"
                    THEN [i \in 1..file.n |-> strptime(file.data[c][i])]
                    ELSE read_column(file.data[c])])]

(***************************************************************************)
(* Feature assembly:                                                       *)
(*   X = df.drop(columns=['date','Nox_baf','Nox opsis'])                   *)
(*   X = X.apply(pd.to_numeric, errors='coerce').fillna(X.mean())          *)
(* The argument X.mean() is evaluated on the frame X still names, i.e. the *)
(* one before coercion.                                                    *)
(***************************************************************************)
\* errors='ignore' only in Nox11_creative.py
drop_raises(v, f) == v # "Nox11_creative" /\ ~(Dropped \subseteq Cols(f))

drop(f) == Frame(f.n, [c \in Cols(f) \ Dropped |-> f.data[c]])

to_numeric(v) ==
  CASE v.k = "strnum" -> Frac(v.n, v.d)
    [] v.k = "str" -> NaN
    [] OTHER -> v

coerce(f) == Frame(f.n, [c \in Cols(f) |-> [i \in 1..f.n |-> to_numeric(f.data[c][i])]])

IsObjectColumn(col) == \E i \in DOMAIN col : col[i].k \in {"str", "strnum"}

RECURSIVE SumNum(_, _)
SumNum(col, i) ==
  IF i = 0 THEN 0
  ELSE SumNum(col, i - 1) + (IF col[i].k = "num" THEN col[i].n ELSE 0)

Count(col) == Cardinality({i \in DOMAIN col : col[i].k = "num"})

\* Series.mean() of a numeric column (skipna): NaN when nothing is present.
\* Cells read from a file are whole numbers, so the sum of numerators is the sum.
mean(col) == IF Count(col) = 0 THEN NaN ELSE Frac(SumNum(col, Len(col)), Count(col))

\* DataFrame.mean(): one entry per column it can average.  For an object
\* column the result depends on the installed pandas: it raises TypeError
\* (pandas >= 2) or leaves the column out of the result (pandas < 2).
MeanOutcomes == {"raise", "omit"}

mean_raises(f, outcome) ==
  outcome = "raise" /\ \E c \in Cols(f) : IsObjectColumn(f.data[c])

means(f) == [c \in {c \in Cols(f) : ~IsObjectColumn(f.data[c])} |-> mean(f.data[c])]

fillna(f, m) ==
  Frame(f.n, [c \in Cols(f) |->
                [i \in 1..f.n |->
                   IF f.data[c][i].k = "nan" /\ c \in DOMAIN m
                   THEN m[c] ELSE f.data[c][i]]])

(***************************************************************************)
(* Inference, alert levels, date filter, summary and export                *)
(***************************************************************************)
HasNaN(f) == \E c \in Cols(f) : \E i \in 1..f.n : f.data[c][i].k # "num"

AddColumn(f, name, col) ==
  Frame(f.n, [c \in Cols(f) \cup {name} |-> IF c = name THEN col ELSE f.data[c]])

Features == {"sensorA", "sensorB"}

\* estimator.predict on row i of the feature matrix
predict_row(est, f, i) ==
  LET a == f.data["sensorA"][i]
      b == f.data["sensorB"][i]
  IN Frac(est.wA * a.n * b.d + est.wB * b.n * a.d + est.c * a.d * b.d, a.d * b.d)

\* predict(X): the fitted estimators reject NaN and a wrong set of features
predict_raises(f) == HasNaN(f) \/ Cols(f) # Features

\* val >= seuil, for a fraction val; a comparison with NaN is False
Ge(v, seuil) == v.k = "num" /\ v.n >= seuil * v.d

\* variant: the danger threshold taken as an exclusive bound
alerte_exclusive(v, att, dang) ==
  IF v.k = "num" /\ v.n > dang * v.d THEN "DANGER"
  ELSE IF Ge(v, att) THEN "ATTENTION"
  ELSE "OK"

alerte(v, att, dang) ==
  IF Ge(v, dang) THEN "DANGER"
  ELSE IF Ge(v, att) THEN "ATTENTION"
  ELSE "OK"

Alerte_baf(v) == alerte(v, 400, 500)
Alerte_opsis(v) == alerte(v, 350, 450)

\* the strings returned, as code points; Nox1_creative.py prefixes an emoji
Label(v, lvl) ==
  IF v = "Nox1_creative"
  THEN CASE lvl = "DANGER" -> <<128680, 32, 68, 65, 78, 71, 69, 82>>
         [] lvl = "ATTENTION" -> <<9888, 65039, 32, 65, 84, 84, 69, 78, 84, 73, 79, 78>>
         [] OTHER -> <<9989, 32, 79, 75>>
  ELSE CASE lvl = "DANGER" -> <<68, 65, 78, 71, 69, 82>>
         [] lvl = "ATTENTION" -> <<65, 84, 84, 69, 78, 84, 73, 79, 78>>
         [] OTHER -> <<79, 75>>

\* str.__lt__: lexicographic on code points
RECURSIVE str_lt(_, _)
str_lt(a, b) ==
  IF b = <<>> THEN FALSE
  ELSE IF a = <<>> THEN TRUE
  ELSE IF Head(a) # Head(b) THEN Head(a) < Head(b)
  ELSE str_lt(Tail(a), Tail(b))

\* df[['Alerte_opsis', 'Alerte_baf']].max(axis=1): the maximum of the two strings
combined(f) ==
  [i \in 1..f.n |->
     IF str_lt(f.data["Alerte_opsis"][i].s, f.data["Alerte_baf"][i].s)
     THEN f.data["Alerte_baf"][i] ELSE f.data["Alerte_opsis"][i]]

\* columns of the summary table
Shown(v) ==
  {"date", "Nox opsis", "Nox_opsis_pred", "Alerte_opsis", "Nox_baf", "Nox_baf_pred", "Alerte_baf"}
    \cup (IF v = "Nox11_creative" THEN {} ELSE {"Alerte"})

\* session values of the date input: untouched, a chosen range of days of
\* January 2024, or a range of which only the first day is picked yet
Days == {1, 2}
Ranges ==
  {DefaultRange}
    \cup {[kind |-> "range", s |-> p[1], e |-> p[2]] : p \in {q \in Days \X Days : q[1] <= q[2]}}
    \cup {[kind |-> "single", s |-> s, e |-> 0] : s \in Days}

\* Timestamp.date() / pd.to_datetime(date): midnight of that day
date(ts) == [ts EXCEPT !.h = 0, !.mi = 0]

min(col) == CHOOSE t \in {col[i] : i \in DOMAIN col} : \A i \in DOMAIN col : Key(t) <= Key(col[i])
max(col) == CHOOSE t \in {col[i] : i \in DOMAIN col} : \A i \in DOMAIN col : Key(t) >= Key(col[i])

\* value of st.date_input("...", [df.date.min().date(), df.date.max().date()])
selected(f, r) ==
  IF r.kind = "default"
  THEN [start |-> date(min(f.data["date"])), end |-> date(max(f.data["date"]))]
  ELSE [start |-> Stamp(r.s, 0, 0), end |-> Stamp(r.e, 0, 0)]

RECURSIVE Kept(_, _, _)
Kept(f, sel, i) ==
  IF i = 0 THEN <<>>
  ELSE IF Key(f.data["date"][i]) >= Key(sel.start) /\ Key(f.data["date"][i]) <= Key(sel.end)
       THEN Append(Kept(f, sel, i - 1), i)
       ELSE Kept(f, sel, i - 1)

take(f, idx) == Frame(Len(idx), [c \in Cols(f) |-> [j \in 1..Len(idx) |-> f.data[c][idx[j]]]])

\* df[(df['date'] >= start) & (df['date'] <= end)]
date_filter(f, sel) == take(f, Kept(f, sel, f.n))

\* ap_NOX.py compares the datetime64 column with datetime.date objects:
\* pandas either raises TypeError or compares with midnight of that day.
CompareOutcomes == {"raise", "compare"}

\* DataFrame.to_csv: datetimes as ISO text (date only when every time is
\* midnight), NaN as the empty field, everything else by its text.
ISO(ts, withTime) ==
  [sep |-> "-", a |-> ts.y, b |-> ts.m, c |-> ts.d, time |-> withTime,
   h |-> ts.h, mi |-> ts.mi, secs |-> withTime]

write_cell(v) ==
  CASE v.k = "nan" -> NaText
    [] v.k = "str" -> Text(v.s)
    [] OTHER -> [k |-> "numtext", n |-> v.n, d |-> v.d, s |-> <<>>]

to_csv(f) ==
  Frame(f.n,
    [c \in Cols(f) |->
       IF c = "date"
       THEN [i \in 1..f.n |->
               ISO(f.data[c][i], \E j \in 1..f.n : f.data[c][j].h # 0 \/ f.data[c][j].mi # 0)]
       ELSE [i \in 1..f.n |-> write_cell(f.data[c][i])]])

Derived == {"Nox_baf_pred", "Nox_opsis_pred", "Alerte_baf", "Alerte_opsis", "Alerte"}

\* the uploaded columns of the augmented table
RawRecords(f) == Frame(f.n, [c \in Cols(f) \ Derived |-> f.data[c]])

(***************************************************************************)
(* Script steps                                                            *)
(***************************************************************************)
Raise(e) == pc' = "error" /\ err' = e

\* variant: the warning is shown but the run is not stopped
upload_check_no_stop ==
  /\ pc = "upload_check"
  /\ pc' = "load_data"
  /\ UNCHANGED <<variant, artifacts, uploaded_file, target, date_range, runs, loads, err,
                 df, X, model_baf, model_opsis, df_filtered, csv, run_loads,
                 run_predicts, saved, val, seuil_att, seuil_dang, level, column>>

\* if not uploaded_file: st.stop()
upload_check ==
  /\ pc = "upload_check"
  /\ pc' = IF uploaded_file.bound THEN "load_data" ELSE "stopped"
  /\ UNCHANGED <<variant, artifacts, uploaded_file, target, date_range, runs, loads, err,
                 df, X, model_baf, model_opsis, df_filtered, csv, run_loads,
                 run_predicts, saved, val, seuil_att, seuil_dang, level, column>>

\* df = pd.read_csv(...); df['date'] = pd.to_datetime(df['date'], format=...)
\* (Nox1_creative.py wraps the two statements in load_data under st.cache_data,
\* which hands out a copy of the same result and does not cache an exception.)
load_data ==
  /\ pc = "load_data"
  /\ LET r == Ingest(uploaded_file) IN
       IF r.err # "" THEN Raise(r.err) /\ df' = df
       ELSE pc' = "prepare_X" /\ err' = err /\ df' = r.df
  /\ UNCHANGED <<variant, artifacts, uploaded_file, target, date_range, runs, loads,
                 X, model_baf, model_opsis, df_filtered, csv, run_loads,
                 run_predicts, saved, val, seuil_att, seuil_dang, level, column>>

\* X = df.drop(...); X = X.apply(pd.to_numeric, errors='coerce').fillna(X.mean())
prepare_X ==
  /\ pc = "prepare_X"
  /\ \E outcome \in MeanOutcomes :
       IF drop_raises(variant, df) THEN Raise("KeyError_drop") /\ X' = X
       ELSE IF mean_raises(drop(df), outcome) THEN Raise("TypeError_mean") /\ X' = drop(df)
       ELSE /\ pc' = "load_models" /\ err' = err
            /\ X' = fillna(coerce(drop(df)), means(drop(df)))
  /\ UNCHANGED <<variant, artifacts, uploaded_file, target, date_range, runs, loads,
                 df, model_baf, model_opsis, df_filtered, csv, run_loads,
                 run_predicts, saved, val, seuil_att, seuil_dang, level, column>>

\* variant: the baf artifact is loaded a second time within the run
load_models_twice ==
  /\ pc = "load_models"
  /\ loads' = [a \in DOMAIN loads |-> loads[a] + (IF a = "baf" THEN 2 ELSE 1)]
  /\ run_loads' = [a \in DOMAIN run_loads |-> run_loads[a] + (IF a = "baf" THEN 2 ELSE 1)]
  /\ model_baf' = [id |-> loads["baf"] + 2, est |-> artifacts.baf]
  /\ model_opsis' = [id |-> loads["opsis"] + 1, est |-> artifacts.opsis]
  /\ pc' = "predict"
  /\ UNCHANGED <<variant, artifacts, uploaded_file, target, date_range, runs, err, df, X,
                 df_filtered, csv, run_predicts, saved,
                 val, seuil_att, seuil_dang, level, column>>

\* model_baf = joblib.load(...); model_opsis = joblib.load(...)
\* Every call builds a new object; it is named here by the count of loads.
load_models ==
  /\ pc = "load_models"
  /\ loads' = [a \in DOMAIN loads |-> loads[a] + 1]
  /\ run_loads' = [a \in DOMAIN run_loads |-> run_loads[a] + 1]
  /\ model_baf' = [id |-> loads["baf"] + 1, est |-> artifacts.baf]
  /\ model_opsis' = [id |-> loads["opsis"] + 1, est |-> artifacts.opsis]
  /\ pc' = "predict"
  /\ UNCHANGED <<variant, artifacts, uploaded_file, target, date_range, runs, err, df, X,
                 df_filtered, csv, run_predicts, saved,
                 val, seuil_att, seuil_dang, level, column>>

\* df['Nox_baf_pred'] = model_baf.predict(X); df['Nox_opsis_pred'] = model_opsis.predict(X)
predict ==
  /\ pc = "predict"
  /\ IF predict_raises(X)
     THEN Raise("ValueError_predict") /\ df' = df /\ run_predicts' = run_predicts + 1
     ELSE /\ df' = AddColumn(AddColumn(df, "Nox_baf_pred",
                               [i \in 1..df.n |-> predict_row(model_baf.est, X, i)]),
                             "Nox_opsis_pred",
                               [i \in 1..df.n |-> predict_row(model_opsis.est, X, i)])
          /\ run_predicts' = run_predicts + 2
          /\ pc' = "alerts" /\ err' = err
  /\ UNCHANGED <<variant, artifacts, uploaded_file, target, date_range, runs, loads, X,
                 model_baf, model_opsis, df_filtered, csv, run_loads, saved,
                 val, seuil_att, seuil_dang, level, column>>

\* df['Alerte_baf'] = df['Nox_baf_pred'].apply(alerte, args=(400,500)); same for opsis
alerts ==
  /\ pc = "alerts"
  /\ df' = AddColumn(AddColumn(df, "Alerte_baf",
                       [i \in 1..df.n |-> Str(Label(variant, Alerte_baf(df.data["Nox_baf_pred"][i])))]),
                     "Alerte_opsis",
                       [i \in 1..df.n |-> Str(Label(variant, Alerte_opsis(df.data["Nox_opsis_pred"][i])))])
  /\ pc' = "filter"
  /\ UNCHANGED <<variant, artifacts, uploaded_file, target, date_range, runs, loads, err, X,
                 model_baf, model_opsis, df_filtered, csv, run_loads,
                 run_predicts, saved, val, seuil_att, seuil_dang, level, column>>

\* target = st.selectbox(...); date_range = st.date_input(...); df_filtered = df[...]
filter ==
  /\ pc = "filter"
  /\ \E outcome \in CompareOutcomes :
       IF date_range.kind = "single"
       THEN Raise(IF variant = "ap_NOX" THEN "ValueError_unpack" ELSE "IndexError_date_range")
            /\ df_filtered' = df_filtered
       ELSE IF variant = "ap_NOX" /\ outcome = "raise"
       THEN Raise("TypeError_compare_date") /\ df_filtered' = df_filtered
       ELSE /\ df_filtered' = date_filter(df, selected(df, date_range))
            /\ pc' = (IF variant = "ap_NOX" THEN "export" ELSE "summary")
            /\ err' = err
  /\ UNCHANGED <<variant, artifacts, uploaded_file, target, date_range, runs, loads, df, X,
                 model_baf, model_opsis, csv, run_loads, run_predicts, saved,
                 val, seuil_att, seuil_dang, level, column>>

\* summary table: Nox1/Nox2 add df['Alerte']; all three select the columns shown
summary ==
  /\ pc = "summary"
  /\ LET d == IF variant = "Nox1_creative"
                 \/ (variant = "Nox2_creative" /\ "Alerte" \notin Cols(df))
              THEN AddColumn(df, "Alerte", combined(df))
              ELSE df
     IN /\ df' = d
        /\ IF Shown(variant) \subseteq Cols(d)
           THEN pc' = "export" /\ err' = err
           ELSE Raise("KeyError_columns")
  /\ UNCHANGED <<variant, artifacts, uploaded_file, target, date_range, runs, loads, X,
                 model_baf, model_opsis, df_filtered, csv, run_loads,
                 run_predicts, saved, val, seuil_att, seuil_dang, level, column>>

\* variant: the filtered frame is exported instead of df
export_filtered ==
  /\ pc = "export"
  /\ csv' = to_csv(df_filtered)
  /\ pc' = "done"
  /\ UNCHANGED <<variant, artifacts, uploaded_file, target, date_range, runs, loads, err,
                 df, X, model_baf, model_opsis, df_filtered, run_loads,
                 run_predicts, saved, val, seuil_att, seuil_dang, level, column>>

\* st.download_button(..., df.to_csv(index=False).encode('utf-8'), ...)
export ==
  /\ pc = "export"
  /\ csv' = to_csv(df)
  /\ pc' = "done"
  /\ UNCHANGED <<variant, artifacts, uploaded_file, target, date_range, runs, loads, err,
                 df, X, model_baf, model_opsis, df_filtered, run_loads,
                 run_predicts, saved, val, seuil_att, seuil_dang, level, column>>

Step ==
  \/ upload_check \/ load_data \/ prepare_X \/ load_models \/ predict
  \/ alerts \/ filter \/ summary \/ export

(***************************************************************************)
(* Reruns.  When a run has ended, an upload, the removal of the file or a  *)
(* widget change makes Streamlit execute the script again in a fresh       *)
(* namespace.                                                              *)
(***************************************************************************)
Ended == pc \in {"stopped", "error", "done"}

Rerun ==
  /\ runs < MaxRuns
  /\ runs' = runs + 1
  /\ pc' = "upload_check" /\ err' = ""
  /\ df' = NoFrame /\ X' = NoFrame /\ df_filtered' = NoFrame /\ csv' = NoFrame
  /\ model_baf' = NoModel /\ model_opsis' = NoModel
  /\ run_loads' = [a \in DOMAIN run_loads |-> 0]
  /\ run_predicts' = 0
  /\ UNCHANGED <<variant, artifacts, loads, val, seuil_att, seuil_dang, level, column>>

\* a new file: the date widget is rebuilt around the new data
upload(files) ==
  /\ Ended /\ Rerun
  /\ \E f \in files : uploaded_file' = f
  /\ date_range' = DefaultRange
  /\ UNCHANGED <<target, saved>>

clear_file ==
  /\ Ended /\ Rerun
  /\ uploaded_file.bound
  /\ uploaded_file' = NoFrame
  /\ UNCHANGED <<target, date_range, saved>>

\* the selector and the date input exist once a run has reached them
WidgetsShown ==
  \/ pc = "done"
  \/ pc = "error" /\ err \in {"IndexError_date_range", "ValueError_unpack",
                              "TypeError_compare_date", "KeyError_columns"}

interact ==
  /\ WidgetsShown /\ Rerun
  /\ target' \in {"BAF", "OPSIS"}
  /\ date_range' \in Ranges
  /\ UNCHANGED <<uploaded_file, saved>>

\* the user saves the offered results file and uploads it
reupload ==
  /\ pc = "done" /\ Rerun
  /\ saved' = [csv |-> csv, raw |-> RawRecords(df)]
  /\ uploaded_file' = csv
  /\ date_range' = DefaultRange
  /\ UNCHANGED target

\* the files at the user's hand
Uploads == ColumnFiles \cup ReadingFiles

Next == Step \/ upload(Uploads) \/ clear_file \/ interact

Spec == Init /\ [][Next]_vars

(***************************************************************************)
(* Properties of the running page (Spec)                                   *)
(***************************************************************************)
Rank(lvl) == CASE lvl = "DANGER" -> 2 [] lvl = "ATTENTION" -> 1 [] OTHER -> 0

Higher(a, b) == IF Rank(a) >= Rank(b) THEN a ELSE b

\* C2: in every row the combined column 'Alerte' is the higher-severity of
\* the row's Alerte_baf and Alerte_opsis under OK < ATTENTION < DANGER.
C2_CombinedIsHigherSeverity ==
  (df.bound /\ "Alerte" \in Cols(df)) =>
    \A i \in 1..df.n :
      df.data["Alerte"][i].s =
        Label(variant, Higher(Alerte_baf(df.data["Nox_baf_pred"][i]),
                              Alerte_opsis(df.data["Nox_opsis_pred"][i])))

NothingComputed ==
  /\ model_baf.id = 0 /\ model_opsis.id = 0
  /\ \A a \in DOMAIN run_loads : run_loads[a] = 0
  /\ run_predicts = 0
  /\ Cols(df) \cap Derived = {}
  /\ ~df_filtered.bound /\ ~csv.bound

\* C5: a file without a 'date' column ends the run in the ingestion error
\* before any model is loaded or asked to predict; nothing is produced.
C5_NoDateStopsAtIngestion ==
  (uploaded_file.bound /\ "date" \notin Cols(uploaded_file)) =>
    /\ NothingComputed
    /\ pc \in {"upload_check", "load_data", "error"}
    /\ pc = "error" => err = "KeyError_date"

C5_Witness ==
  /\ uploaded_file.bound /\ "date" \notin Cols(uploaded_file)
  /\ pc = "error" /\ err = "KeyError_date"

\* C6: a file lacking 'Nox_baf' or 'Nox opsis' is fatal during ingestion or
\* feature assembly in every script: no prediction or alert is computed.
C6_MissingReferenceIsFatal ==
  (uploaded_file.bound /\ ~({"Nox_baf", "Nox opsis"} \subseteq Cols(uploaded_file))) =>
    /\ run_predicts = 0
    /\ Cols(df) \cap Derived = {}
    /\ pc \in {"upload_check", "load_data", "prepare_X", "error"}

\* C7: without a file the run halts at the upload check without an error;
\* nothing is parsed, loaded, predicted, classified or offered.
C7_IdleWithoutFile ==
  ~uploaded_file.bound =>
    /\ pc \in {"upload_check", "stopped"}
    /\ err = ""
    /\ ~df.bound /\ ~X.bound
    /\ NothingComputed

C7_Witness == ~uploaded_file.bound /\ pc = "stopped" /\ runs > 0

Computed == {"Nox_baf_pred", "Nox_opsis_pred", "Alerte_baf", "Alerte_opsis"}

ComputedPart(f) == [c \in Computed |-> f.data[c]]

ExportComplete ==
  /\ csv.n = uploaded_file.n
  /\ \A c \in Cols(uploaded_file) : csv.data[c] = to_csv(Ingest(uploaded_file).df).data[c]
  /\ \A c \in Computed : csv.data[c] = to_csv(df).data[c]

\* C9: for any selector value and date range the presentation steps leave
\* the prediction and alert columns of every row unchanged, and the exported
\* CSV holds every ingested row.
C9_PresentationKeepsResults ==
  [][/\ pc \in {"filter", "summary", "export"} => ComputedPart(df') = ComputedPart(df)
     /\ csv'.bound => ExportComplete']_vars

C9_Witness ==
  /\ pc = "done" /\ csv.bound
  /\ target = "OPSIS" /\ date_range.kind = "range"
  /\ df_filtered.n < df.n /\ csv.n = df.n

(***************************************************************************)
(* Feature assembly alone: a run started on an uploaded file, followed up  *)
(* to the statement that builds X.                                         *)
(***************************************************************************)
InitFeatures == \E f \in CellFiles : Start(f, 1, {Constant(420, 420)}) /\ val = Num(0)

NextFeatures == upload_check \/ load_data \/ prepare_X

SpecFeatures == InitFeatures /\ [][NextFeatures]_vars

\* C3: after feature assembly, every feature column with at least one value
\* coercible to a number has no missing marker left, and every cell that was
\* missing or failed coercion holds the mean of the column's numeric values.
Coercible(v) == v.k \in {"num", "strnum"}

RECURSIVE SumCoercible(_, _)
SumCoercible(col, i) ==
  IF i = 0 THEN 0
  ELSE SumCoercible(col, i - 1) + (IF Coercible(col[i]) THEN col[i].n ELSE 0)

CountCoercible(col) == Cardinality({i \in DOMAIN col : Coercible(col[i])})

IsMeanOf(v, col) ==
  v.k = "num" /\ v.n * CountCoercible(col) = SumCoercible(col, Len(col)) * v.d

FeatureColumns == Cols(df) \ Dropped

AssemblyDone == df.bound /\ pc \notin {"upload_check", "load_data", "prepare_X"}

Imputed(c) ==
  CountCoercible(df.data[c]) > 0 =>
    /\ X.bound /\ c \in Cols(X)
    /\ \A i \in 1..df.n :
         /\ X.data[c][i].k = "num"
         /\ ~Coercible(df.data[c][i]) => IsMeanOf(X.data[c][i], df.data[c])

C3_ImputationComplete ==
  AssemblyDone => \A c \in FeatureColumns : Imputed(c)

(***************************************************************************)
(* Ingestion, date filter and export on files whose timestamps vary; the   *)
(* user may feed the exported file back to the uploader.                   *)
(***************************************************************************)
Stamps == {Stamp(1, 0, 0), Stamp(1, 10, 0), Stamp(2, 10, 0)}

\* the texts of the stamps in the expected pattern, and one in another pattern
DateTexts == {DMY(t) : t \in Stamps} \cup {ISO(Stamp(1, 10, 0), TRUE)}

DateFiles ==
  UNION {{File(n, AllColumns, dates, PlainA(n), PlainB(n)) :
            dates \in [1..n -> DateTexts]} : n \in Rows}

InitDates == \E f \in DateFiles : Start(f, 1, Artifacts) /\ val = Num(0)

NextDates == Step \/ reupload

SpecDates == InitDates /\ [][NextDates]_vars

\* C4: feeding the exported CSV back through ingestion succeeds and yields
\* the raw records of the table it was exported from, timestamps included.
C4_RoundTrip ==
  (saved.csv.bound /\ uploaded_file.bound /\ Cols(uploaded_file) = Cols(saved.csv)
     /\ uploaded_file = saved.csv /\ pc \notin {"upload_check", "load_data"}) =>
    /\ err = ""
    /\ df.bound /\ Cols(RawRecords(df)) = Cols(saved.raw)
    /\ RawRecords(df) = saved.raw

\* C10: with the default date range the date filter keeps every row.
C10_DefaultRangeKeepsAll ==
  (df_filtered.bound /\ date_range.kind = "default") => df_filtered.n = df.n

(***************************************************************************)
(* The alert classifier on its own: one call on a value, with the          *)
(* arguments of either prediction column or with any pair of thresholds.   *)
(***************************************************************************)
Values ==
  {Num(v) : v \in {349, 350, 351, 399, 400, 401, 449, 450, 451, 499, 500, 501}}
    \cup {Frac(499999, 1000), Frac(399999, 1000), Frac(349999, 1000), Frac(449999, 1000)}

Thresholds == {350, 400, 450, 500}

InitAlert == Start(NoFrame, 0, {Constant(420, 420)}) /\ val \in Values

\* alerte(val, seuil_att, seuil_dang) with seuil_dang > seuil_att
call_alerte ==
  /\ \E att \in Thresholds, dang \in Thresholds :
       /\ dang > att
       /\ seuil_att' = att /\ seuil_dang' = dang
       /\ level' = alerte(val, att, dang)
  /\ column' = ""
  /\ UNCHANGED <<variant, artifacts, uploaded_file, target, date_range, runs, loads, pc, err,
                 df, X, model_baf, model_opsis, df_filtered, csv, run_loads,
                 run_predicts, saved, val>>

\* one row of df['Nox_baf_pred'].apply(alerte, args=(400,500))
apply_baf ==
  /\ seuil_att' = 400 /\ seuil_dang' = 500
  /\ level' = Alerte_baf(val)
  /\ column' = "Nox_baf_pred"
  /\ UNCHANGED <<variant, artifacts, uploaded_file, target, date_range, runs, loads, pc, err,
                 df, X, model_baf, model_opsis, df_filtered, csv, run_loads,
                 run_predicts, saved, val>>

\* one row of df['Nox_opsis_pred'].apply(alerte, args=(350,450))
apply_opsis ==
  /\ seuil_att' = 350 /\ seuil_dang' = 450
  /\ level' = Alerte_opsis(val)
  /\ column' = "Nox_opsis_pred"
  /\ UNCHANGED <<variant, artifacts, uploaded_file, target, date_range, runs, loads, pc, err,
                 df, X, model_baf, model_opsis, df_filtered, csv, run_loads,
                 run_predicts, saved, val>>

NextAlert == call_alerte \/ apply_baf \/ apply_opsis

SpecAlert == InitAlert /\ [][NextAlert]_vars

\* C1: the classifier returns DANGER exactly when v >= danger, ATTENTION
\* exactly when attention <= v < danger and OK exactly when v < attention;
\* the baf column is classified with (400, 500), the opsis one with (350, 450).
C1_InclusiveThresholds ==
  level # "none" =>
    /\ level \in {"DANGER", "ATTENTION", "OK"}
    /\ level = "DANGER" <=> val.n >= seuil_dang * val.d
    /\ level = "ATTENTION" <=> (val.n >= seuil_att * val.d /\ val.n < seuil_dang * val.d)
    /\ level = "OK" <=> val.n < seuil_att * val.d
    /\ column = "Nox_baf_pred" => seuil_att = 400 /\ seuil_dang = 500
    /\ column = "Nox_opsis_pred" => seuil_att = 350 /\ seuil_dang = 450

C1_Witness ==
  \/ column = "Nox_baf_pred" /\ val = Num(500) /\ level = "DANGER"
  \/ column = "Nox_opsis_pred" /\ val = Num(350) /\ level = "ATTENTION"
====
